---- MODULE Spec2Model ----
(***************************************************************************)
(* Model of server.js: an Express gateway that exposes two Lambda-style    *)
(* handlers (main.js, identify-duplicates.js) behind bearer authentication *)
(* and deep string coercion of the JSON request body.                      *)
(*                                                                         *)
(* JavaScript strings are sequences of one-character strings, so that      *)
(* String(), JSON.stringify, the Bearer regular expression and the UTF-8   *)
(* encoding of Buffer.from are computed rather than assumed.               *)
(***************************************************************************)
EXTENDS Integers, Sequences, FiniteSets, TLC

(***************************************************************************)
(* Bounds of the model.                                                    *)
(***************************************************************************)
\* longest array / largest object among the enumerated JSON values
MaxLen == 2
\* deepest nesting of containers among the enumerated JSON values
MaxDepth == 2
\* largest magnitude of the enumerated JSON numbers
MaxNum == 12

(***************************************************************************)
(* JavaScript values.                                                      *)
(***************************************************************************)
Undefined == [t |-> "undefined"]
Null == [t |-> "null"]
Str(s) == [t |-> "string", s |-> s]
Num(n) == [t |-> "number", n |-> n]
Bool(b) == [t |-> "boolean", b |-> b]
Arr(items) == [t |-> "array", items |-> items]
\* the [[Prototype]] of an object literal and of every object JSON.parse makes
ObjectPrototype == [t |-> "Object.prototype"]
\* ents: the own enumerable properties in property order; proto: [[Prototype]]
Obj(ents, proto) == [t |-> "object", ents |-> ents, proto |-> proto]
Ent(k, v) == [k |-> k, v |-> v]
EmptyObject == Obj(<<>>, ObjectPrototype)

\* the characters of a property name
KeyChars(k) ==
  CASE k = "a" -> <<"a">>
    [] k = "b" -> <<"b">>
    [] k = "c" -> <<"c">>
    [] k = "1" -> <<"1">>
    [] k = "2" -> <<"2">>
    [] k = "error" -> <<"e", "r", "r", "o", "r">>
    [] k = "__proto__" -> <<"_", "_", "p", "r", "o", "t", "o", "_", "_">>

\* an integer-like property name (an array index in the property order)
IsIndexKey(k) == k \in {"1", "2"}
IndexOfKey(k) == IF k = "1" THEN 1 ELSE 2

\* property order of an ordinary object: index keys ascending, then the
\* other names in creation order
KeyBefore(k1, k2) ==
  /\ IsIndexKey(k1)
  /\ ~IsIndexKey(k2) \/ IndexOfKey(k1) < IndexOfKey(k2)

RECURSIVE InsertEnt(_, _)
InsertEnt(ents, e) ==
  IF ents = <<>> THEN <<e>>
  ELSE IF KeyBefore(e.k, Head(ents).k) THEN <<e>> \o ents
  ELSE <<Head(ents)>> \o InsertEnt(Tail(ents), e)

\* out[k] = v on an object created by the literal {}
SetProperty(out, k, v) ==
  IF k = "__proto__"
  THEN \* the inherited accessor Object.prototype.__proto__ takes the write:
       \* no own property is created; an object value becomes the prototype
       IF v.t \in {"object", "array"} THEN Obj(out.ents, v) ELSE out
  ELSE Obj(InsertEnt(out.ents, Ent(k, v)), out.proto)

(***************************************************************************)
(* String(value) for numbers and booleans.                                 *)
(***************************************************************************)
DigitChar(d) ==
  CASE d = 0 -> "0" [] d = 1 -> "1" [] d = 2 -> "2" [] d = 3 -> "3"
    [] d = 4 -> "4" [] d = 5 -> "5" [] d = 6 -> "6" [] d = 7 -> "7"
    [] d = 8 -> "8" [] d = 9 -> "9"

RECURSIVE NatToString(_)
NatToString(n) ==
  IF n < 10 THEN <<DigitChar(n)>>
  ELSE NatToString(n \div 10) \o <<DigitChar(n % 10)>>

NumberToString(n) == IF n < 0 THEN <<"-">> \o NatToString(0 - n) ELSE NatToString(n)

BooleanToString(b) == IF b THEN <<"t", "r", "u", "e">> ELSE <<"f", "a", "l", "s", "e">>

\* a plausible slip: the string test is missing and String() is replaced by
\* JSON.stringify, so that string leaves gain quotes
coerceLeaf_quoting(value) ==
  CASE value.t \in {"null", "undefined"} -> Str(<<>>)
    [] value.t = "string" -> Str(<<"\"">> \o value.s \o <<"\"">>)
    [] value.t = "number" -> Str(NumberToString(value.n))
    [] value.t = "boolean" -> Str(BooleanToString(value.b))

\* the non-container branches of coerceToStringsDeep
coerceLeaf(value) ==
  CASE value.t \in {"null", "undefined"} -> Str(<<>>)
    [] value.t = "string" -> value
    [] value.t = "number" -> Str(NumberToString(value.n))
    [] value.t = "boolean" -> Str(BooleanToString(value.b))

RECURSIVE coerceToStringsDeep(_)
RECURSIVE coerceEntries(_, _)
\* for (const [k, v] of Object.entries(value)) out[k] = coerceToStringsDeep(v)
coerceEntries(ents, out) ==
  IF ents = <<>> THEN out
  ELSE coerceEntries(Tail(ents),
                     SetProperty(out, Head(ents).k, coerceToStringsDeep(Head(ents).v)))

coerceToStringsDeep(value) ==
  IF value.t = "array"
  THEN Arr([i \in 1..Len(value.items) |-> coerceToStringsDeep(value.items[i])])
  ELSE IF value.t = "object"
  THEN coerceEntries(value.ents, EmptyObject)
  ELSE coerceLeaf(value)

(***************************************************************************)
(* JSON.stringify.  No modelled string holds a quote, a backslash or a     *)
(* control character, so no escape sequence arises.                        *)
(***************************************************************************)
Quoted(s) == <<"\"">> \o s \o <<"\"">>

RECURSIVE JsonText(_)
RECURSIVE JsonItems(_)
RECURSIVE JsonMembers(_)
JsonItems(items) ==
  IF items = <<>> THEN <<>>
  ELSE JsonText(Head(items))
       \o (IF Tail(items) = <<>> THEN <<>> ELSE <<",">> \o JsonItems(Tail(items)))

JsonMembers(ents) ==
  IF ents = <<>> THEN <<>>
  ELSE Quoted(KeyChars(Head(ents).k)) \o <<":">> \o JsonText(Head(ents).v)
       \o (IF Tail(ents) = <<>> THEN <<>> ELSE <<",">> \o JsonMembers(Tail(ents)))

\* only own enumerable properties are serialized; the prototype is not
JsonText(v) ==
  CASE v.t \in {"null", "undefined"} -> <<"n", "u", "l", "l">>
    [] v.t = "string" -> Quoted(v.s)
    [] v.t = "number" -> NumberToString(v.n)
    [] v.t = "boolean" -> BooleanToString(v.b)
    [] v.t = "array" -> <<"[">> \o JsonItems(v.items) \o <<"]">>
    [] v.t = "object" -> <<"{">> \o JsonMembers(v.ents) \o <<"}">>

\* JSON.stringify(undefined) is undefined, not a string
JSONstringify(v) == IF v.t = "undefined" THEN Undefined ELSE Str(JsonText(v))

(***************************************************************************)
(* requireAuth.  "U+00E9" stands for the one character e-acute: one UTF-16 *)
(* code unit (and one latin1 header byte), two bytes in UTF-8.  All        *)
(* modelled characters are one UTF-16 code unit, so .length is Len.        *)
(***************************************************************************)
Lower(c) ==
  CASE c = "B" -> "b" [] c = "E" -> "e" [] c = "A" -> "a" [] c = "R" -> "r"
    [] OTHER -> c

\* \s of the regular expression
IsSpace(c) == c \in {" ", "\t"}

RECURSIVE DropSpaces(_)
DropSpaces(s) == IF s # <<>> /\ IsSpace(Head(s)) THEN DropSpaces(Tail(s)) ELSE s

\* s.replace(/^Bearer\s+/i, "")
StripBearer(s) ==
  IF /\ Len(s) >= 7
     /\ [i \in 1..6 |-> Lower(s[i])] = <<"b", "e", "a", "r", "e", "r">>
     /\ IsSpace(s[7])
  THEN DropSpaces(SubSeq(s, 7, Len(s)))
  ELSE s

\* UTF-8 encoding of one character
Utf8(c) ==
  CASE c = "U+00E9" -> <<195, 169>>
    [] c = " " -> <<32>>
    [] c = "B" -> <<66>>
    [] c = "a" -> <<97>>
    [] c = "b" -> <<98>>
    [] c = "c" -> <<99>>
    [] c = "e" -> <<101>>
    [] c = "i" -> <<105>>
    [] c = "r" -> <<114>>
    [] c = "s" -> <<115>>
    [] c = "x" -> <<120>>

\* Buffer.from(string): the UTF-8 bytes
RECURSIVE BufferFrom(_)
BufferFrom(s) == IF s = <<>> THEN <<>> ELSE Utf8(Head(s)) \o BufferFrom(Tail(s))

\* crypto.timingSafeEqual throws a RangeError on buffers of different length
timingSafeEqual(a, b) ==
  IF Len(a) # Len(b) THEN "RangeError" ELSE IF a = b THEN "true" ELSE "false"

\* !value, for undefined and strings
Falsy(v) == v.t = "undefined" \/ (v.t = "string" /\ v.s = <<>>)

\* req.headers.authorization || ""
HeaderOrEmpty(authorization) == IF Falsy(authorization) THEN <<>> ELSE authorization.s

got(authorization) == StripBearer(HeaderOrEmpty(authorization))

\* a plausible slip: the credential is examined before the server secret
authenticate_headerFirst(authorization, expected) ==
  IF got(authorization) = <<>> THEN "Unauthorized"
  ELSE IF Falsy(expected) THEN "MissingServerSecret"
  ELSE IF Len(got(authorization)) # Len(expected.s) THEN "Unauthorized"
  ELSE LET eq == timingSafeEqual(BufferFrom(got(authorization)), BufferFrom(expected.s))
       IN  IF eq = "RangeError" THEN "RangeError"
           ELSE IF eq = "true" THEN "Authorized" ELSE "Unauthorized"

\* line 83 is reached: the operands of && before it are truthy
Compared(authorization, expected) ==
  /\ ~Falsy(expected)
  /\ got(authorization) # <<>>
  /\ Len(got(authorization)) = Len(expected.s)

\* the decision of requireAuth; "RangeError" is the exception that escapes it
authenticate(authorization, expected) ==
  IF Falsy(expected) THEN "MissingServerSecret"
  ELSE IF got(authorization) = <<>> THEN "Unauthorized"
  ELSE IF Len(got(authorization)) # Len(expected.s) THEN "Unauthorized"
  ELSE LET eq == timingSafeEqual(BufferFrom(got(authorization)), BufferFrom(expected.s))
       IN  IF eq = "RangeError" THEN "RangeError"
           ELSE IF eq = "true" THEN "Authorized" ELSE "Unauthorized"

(***************************************************************************)
(* Responses.  Fixed texts are kept as one piece.                          *)
(***************************************************************************)
NoResponse == [status |-> 0, by |-> "none", body |-> <<>>]
\* res.status(status).json({ error: message })
JsonError(status, message) ==
  [status |-> status, by |-> "json",
   body |-> JsonText(Obj(<<Ent("error", Str(message))>>, ObjectPrototype))]
\* res.status(status).send(text)
Send(status, text) == [status |-> status, by |-> "send", body |-> text]
\* Express's default error handler: the status of the error, else 500, and an
\* error page
FinalHandler(status) == [status |-> status, by |-> "finalhandler", body |-> <<>>]

\* the response requireAuth sends, NoResponse when it calls next()
requireAuth(authorization, expected) ==
  LET a == authenticate(authorization, expected)
  IN  CASE a = "MissingServerSecret" -> JsonError(500, <<"Missing INTERNAL_AUTH_TOKEN">>)
        [] a = "Unauthorized" -> JsonError(401, <<"Unauthorized">>)
        [] a = "RangeError" -> FinalHandler(500)
        [] a = "Authorized" -> NoResponse

(***************************************************************************)
(* Handler modules and their resolution at startup.                        *)
(***************************************************************************)
\* typeof of an export; "undefined" is an export that is absent
ExportTypes == {"undefined", "function", "object"}

\* what require() returned: the typeof of module.exports itself and of its
\* .handler and .default members (undefined has no members)
AllModules ==
  {m \in [self : ExportTypes, handler : ExportTypes, default : ExportTypes] :
     m.self = "undefined" => (m.handler = "undefined" /\ m.default = "undefined")}

Unresolved == [via |-> "none", type |-> "undefined"]

\* m?.handler || m?.default || m  (functions and objects are truthy)
Resolve(m) ==
  IF m.handler # "undefined" THEN [via |-> "handler", type |-> m.handler]
  ELSE IF m.default # "undefined" THEN [via |-> "default", type |-> m.default]
  ELSE [via |-> "module", type |-> m.self]

\* a plausible slip: only the main handler is checked
FailFast_mainOnly(mh, ih) ==
  IF mh.type # "function" THEN "crashed" ELSE "listening"

\* the two typeof checks; a throw ends the process before app.listen
FailFast(mh, ih) ==
  IF mh.type # "function" THEN "crashed"
  ELSE IF ih.type # "function" THEN "crashed"
  ELSE "listening"

(***************************************************************************)
(* Requests, handler outcomes.                                             *)
(***************************************************************************)
ErrorOf(message) == [t |-> "Error", message |-> Str(message)]

\* what a handler may throw or reject with
Thrown == {ErrorOf(<<"b", "o", "o", "m">>), ErrorOf(<<>>), Null}

\* what a handler may resolve with: an object with an optional statusCode (an
\* HTTP status) and an optional body (a string), or no object at all
HandlerResults ==
  {[t |-> "result", statusCode |-> c, body |-> b] :
     c \in {Undefined, Num(201), Num(404)},
     b \in {Undefined, Str(<<>>), Str(<<"x">>)}}
  \cup {Undefined}

NoOutcome == [t |-> "none"]

\* a plausible slip: the message is never reported
CatchBlock_generic(err) == JsonError(500, <<"Internal error">>)

\* a plausible slip: the message is sent as text, not as a JSON object
CatchBlock_plain(err) ==
  Send(500, IF err.t = "Error" /\ ~Falsy(err.message)
            THEN err.message.s ELSE <<"Internal error">>)

\* err?.message || "Internal error", sent by the catch block
CatchBlock(err) ==
  JsonError(500, IF err.t = "Error" /\ ~Falsy(err.message)
                 THEN err.message.s ELSE <<"Internal error">>)

\* a plausible slip: a missing body is sent as the text of undefined
Respond_undefinedBody(out) ==
  IF out.t = "undefined"
  THEN CatchBlock(ErrorOf(<<"Cannot read properties of undefined">>))
  ELSE Send(IF out.statusCode.t = "undefined" \/ out.statusCode.n = 0
            THEN 200 ELSE out.statusCode.n,
            IF out.body.t = "undefined" THEN <<"undefined">> ELSE out.body.s)

\* res.status(out.statusCode || 200).send(out.body || ""); reading a member
\* of undefined throws a TypeError into the catch block
Respond(out) ==
  IF out.t = "undefined"
  THEN CatchBlock(ErrorOf(<<"Cannot read properties of undefined">>))
  ELSE Send(IF out.statusCode.t = "undefined" \/ out.statusCode.n = 0
            THEN 200 ELSE out.statusCode.n,
            IF Falsy(out.body) THEN <<>> ELSE out.body.s)

Headers(authorization) == [authorization |-> authorization]
NoEvent == [body |-> Undefined, headers |-> Headers(Undefined)]

\* a plausible slip: the body is forwarded as parsed
BuildEvent_raw(body, headers) == [body |-> JSONstringify(body), headers |-> headers]

\* cleanedBody = coerceToStringsDeep(req.body);
\* event = { body: JSON.stringify(cleanedBody), headers: req.headers }
BuildEvent(body, headers) ==
  [body |-> JSONstringify(coerceToStringsDeep(body)), headers |-> headers]

\* a plausible slip: the size error loses its status and is reported as 500
ParseError_serverError(payload) ==
  CASE payload.kind = "malformed" -> 400
    [] payload.kind = "toolarge" -> 500
    [] OTHER -> 0

\* express.json({ limit: "2mb" }): the status of the error it passes on
ParseError(payload) ==
  CASE payload.kind = "malformed" -> 400
    [] payload.kind = "toolarge" -> 413
    [] OTHER -> 0

\* express.json: the possible req.body of a request that passes.  A request
\* without a JSON body gets {} (body-parser 1) or no body at all (body-parser 2)
ParsedBodies(payload) ==
  CASE payload.kind = "json" -> {payload.value}
    [] payload.kind = "none" -> {EmptyObject, Undefined}
    [] OTHER -> {}

Idle ==
  [pc |-> "idle", route |-> "none", headers |-> Headers(Undefined),
   payload |-> [kind |-> "none", value |-> Undefined],
   body |-> Undefined, auth |-> "none", invoked |-> 0, callee |-> "none",
   event |-> NoEvent, outcome |-> "none", result |-> NoOutcome,
   hung |-> FALSE, sent |-> <<>>, res |-> NoResponse, afterFailure |-> FALSE]

(***************************************************************************)
(* Enumerated inputs.                                                      *)
(***************************************************************************)
Plain(ents) == Obj(ents, ObjectPrototype)

\* {"a": 1, "b": null, "c": [true, "x"]}
ExampleBody ==
  Plain(<<Ent("a", Num(1)), Ent("b", Null),
          Ent("c", Arr(<<Bool(TRUE), Str(<<"x">>)>>))>>)

\* {"__proto__": {"a": 1}, "b": 2}
ProtoBody ==
  Plain(<<Ent("__proto__", Plain(<<Ent("a", Num(1))>>)), Ent("b", Num(2))>>)

Payloads ==
  {[kind |-> "none", value |-> Undefined],
   [kind |-> "malformed", value |-> Undefined],
   [kind |-> "toolarge", value |-> Undefined]}
  \cup {[kind |-> "json", value |-> v] : v \in {ExampleBody, ProtoBody, Arr(<<>>)}}

Bearer == <<"B", "e", "a", "r", "e", "r", " ">>
LowerBearer == <<"b", "e", "a", "r", "e", "r", " ", " ">>
Basic == <<"B", "a", "s", "i", "c", " ">>

Tokens == {<<"a", "b">>, <<"a", "x">>, <<"a">>, <<"U+00E9", "b">>, <<"U+00E9">>}

AuthorizationValues ==
  {Undefined, Str(<<>>)}
  \cup {Str(p \o t) : p \in {<<>>, Bearer, LowerBearer, Basic}, t \in Tokens}

Secrets == {Undefined, Str(<<>>), Str(<<"a", "b">>), Str(<<"U+00E9">>)}

Routes == {"check", "identify", "health"}

Workload ==
  [route : Routes, authorization : AuthorizationValues, payload : Payloads]

\* the modules of the deployed configuration and one broken module
HandlerExport == [self |-> "object", handler |-> "function", default |-> "undefined"]
NoExport == [self |-> "object", handler |-> "undefined", default |-> "undefined"]
DeployedModules == {HandlerExport, NoExport}

(***************************************************************************)
(* State.                                                                  *)
(***************************************************************************)
VARIABLES
  phase,                      \* "starting", "listening" or "crashed"
  mainModule, identifyModule, \* the values of the two require() calls
  mainHandler, identifyDuplicatesHandler,
  env,                        \* process.env
  reqs,                       \* the requests in flight, by connection
  failed,                     \* some handler invocation has failed
  value, once, twice          \* an input of coerceToStringsDeep, its results

gatewayVars ==
  <<phase, mainModule, identifyModule, mainHandler, identifyDuplicatesHandler,
    env, reqs, failed>>
coerceVars == <<value, once, twice>>
vars == <<gatewayVars, coerceVars>>

NotRun == [t |-> "none"]

InitWith(modules, secrets) ==
  /\ phase = "starting"
  /\ mainModule \in modules
  /\ identifyModule \in modules
  /\ mainHandler = Unresolved
  /\ identifyDuplicatesHandler = Unresolved
  /\ env \in {[INTERNAL_AUTH_TOKEN |-> s] : s \in secrets}
  /\ reqs = [r \in {1} |-> Idle]
  /\ failed = FALSE
  /\ value = Null /\ once = NotRun /\ twice = NotRun

Init == InitWith(DeployedModules, Secrets)

\* lines 19-42 and 123-128: resolve both handlers, fail fast, listen
Startup ==
  /\ phase = "starting"
  /\ mainHandler' = Resolve(mainModule)
  /\ identifyDuplicatesHandler' = Resolve(identifyModule)
  /\ phase' = FailFast(Resolve(mainModule), Resolve(identifyModule))
  /\ UNCHANGED <<mainModule, identifyModule, env, reqs, failed, coerceVars>>

\* a plausible slip: a default secret stands in for a missing one
expected_fallback ==
  IF Falsy(env.INTERNAL_AUTH_TOKEN) THEN Str(<<"a", "b">>) ELSE env.INTERNAL_AUTH_TOKEN

\* const expected = process.env.INTERNAL_AUTH_TOKEN, read by every request
expected == env.INTERNAL_AUTH_TOKEN

\* a plausible slip: next() is never reached
CallsNext_forgotten(a) == FALSE

\* requireAuth reaches next() only past both returns
CallsNext(a) == a = "Authorized"

Frame == UNCHANGED <<phase, mainModule, identifyModule, mainHandler,
                     identifyDuplicatesHandler, env, coerceVars>>

\* a request arrives on a free connection
Arrive(r, workload) ==
  /\ phase = "listening"
  /\ reqs[r].pc \in {"idle", "done"}
  /\ \E in \in workload :
       reqs' = [reqs EXCEPT ![r] =
                  [Idle EXCEPT !.pc = "reading", !.route = in.route,
                               !.headers = Headers(in.authorization),
                               !.payload = in.payload,
                               !.afterFailure = failed]]
  /\ UNCHANGED failed
  /\ Frame

\* the step writes the responses of writes, in order, and ends the request;
\* sent is every response written for the request, res the last of them
FinishAll(r, req, writes) ==
  reqs' = [reqs EXCEPT ![r] = [req EXCEPT !.pc = "done",
                                          !.sent = req.sent \o writes,
                                          !.res = writes[Len(writes)]]]

Finish(r, req, res) == FinishAll(r, req, <<res>>)

\* app.use(express.json(...)) runs for every route; its error reaches the
\* default error handler
JsonParserFails(r) ==
  /\ reqs[r].pc = "reading"
  /\ ParseError(reqs[r].payload) # 0
  /\ Finish(r, reqs[r], FinalHandler(ParseError(reqs[r].payload)))
  /\ UNCHANGED failed
  /\ Frame

\* app.get("/health")
Health(r) ==
  /\ reqs[r].pc = "reading"
  /\ reqs[r].route = "health"
  /\ \E b \in ParsedBodies(reqs[r].payload) :
       Finish(r, [reqs[r] EXCEPT !.body = b], Send(200, <<"ok">>))
  /\ UNCHANGED failed
  /\ Frame

Authenticated(req) == req.route \in {"check", "identify"}

\* requireAuth answers the request itself, or throws
RequireAuthRejects(r) ==
  /\ reqs[r].pc = "reading"
  /\ Authenticated(reqs[r])
  /\ \E b \in ParsedBodies(reqs[r].payload) :
       LET a == authenticate(reqs[r].headers.authorization, expected)
       IN  /\ a # "Authorized"
           /\ Finish(r, [reqs[r] EXCEPT !.body = b, !.auth = a],
                     requireAuth(reqs[r].headers.authorization, expected))
  /\ UNCHANGED failed
  /\ Frame

Callee(route) == IF route = "check" THEN "mainHandler" ELSE "identifyDuplicatesHandler"

\* a plausible slip: the handler is called again when a call is made
Invoked_twice(req, b) ==
  [req EXCEPT !.body = b, !.auth = "Authorized",
              !.invoked = req.invoked + 2, !.callee = Callee(req.route),
              !.event = BuildEvent(b, req.headers)]

\* requireAuth calls next(); the route builds the event and calls the handler
Invoked(req, b) ==
  [req EXCEPT !.body = b, !.auth = "Authorized",
              !.invoked = req.invoked + 1, !.callee = Callee(req.route),
              !.event = BuildEvent(b, req.headers)]

\* the handler throws before returning a promise
RouteHandlerThrows(r) ==
  /\ reqs[r].pc = "reading"
  /\ Authenticated(reqs[r])
  /\ CallsNext(authenticate(reqs[r].headers.authorization, expected))
  /\ \E b \in ParsedBodies(reqs[r].payload), err \in Thrown :
       Finish(r, [Invoked(reqs[r], b) EXCEPT !.outcome = "threw", !.result = err],
              CatchBlock(err))
  /\ failed' = TRUE
  /\ Frame

\* the route is suspended at await; the promise may never settle (hung)
RouteAwaits(r) ==
  /\ reqs[r].pc = "reading"
  /\ Authenticated(reqs[r])
  /\ CallsNext(authenticate(reqs[r].headers.authorization, expected))
  /\ \E b \in ParsedBodies(reqs[r].payload), h \in BOOLEAN :
       reqs' = [reqs EXCEPT ![r] = [Invoked(reqs[r], b) EXCEPT !.pc = "await", !.hung = h]]
  /\ UNCHANGED failed
  /\ Frame

\* a plausible slip: a statement after send() reads out.body.length, throws
\* for a result without body, and the catch block answers once more
SettleWrites_afterSend(out) ==
  IF out.t = "result" /\ out.body.t = "undefined"
  THEN <<Respond(out), CatchBlock(ErrorOf(<<"Cannot read properties of undefined">>))>>
  ELSE <<Respond(out)>>

\* the responses lines 103-107 write once the promise is fulfilled: send() is
\* the last statement of the try block, so the catch block writes only when
\* nothing has been written
SettleWrites(out) == <<Respond(out)>>

\* the awaited promise is fulfilled
HandlerResolves(r) ==
  /\ reqs[r].pc = "await"
  /\ ~reqs[r].hung
  /\ \E out \in HandlerResults :
       FinishAll(r, [reqs[r] EXCEPT !.outcome = "resolved", !.result = out],
                 SettleWrites(out))
  /\ UNCHANGED failed
  /\ Frame

\* the awaited promise is rejected
HandlerRejects(r) ==
  /\ reqs[r].pc = "await"
  /\ ~reqs[r].hung
  /\ \E err \in Thrown :
       Finish(r, [reqs[r] EXCEPT !.outcome = "rejected", !.result = err], CatchBlock(err))
  /\ failed' = TRUE
  /\ Frame

\* the steps that serve the requests in flight
Serve ==
  \/ \E r \in DOMAIN reqs : JsonParserFails(r)
  \/ \E r \in DOMAIN reqs : Health(r)
  \/ \E r \in DOMAIN reqs : RequireAuthRejects(r)
  \/ \E r \in DOMAIN reqs : RouteHandlerThrows(r)
  \/ \E r \in DOMAIN reqs : RouteAwaits(r)
  \/ \E r \in DOMAIN reqs : HandlerResolves(r)
  \/ \E r \in DOMAIN reqs : HandlerRejects(r)

Next ==
  \/ Startup
  \/ \E r \in DOMAIN reqs : Arrive(r, Workload)
  \/ Serve

Spec == Init /\ [][Next]_vars

(***************************************************************************)
(* Startup over every shape of the two modules, with a small workload.     *)
(***************************************************************************)
StartupWorkload ==
  {[route |-> "health", authorization |-> Undefined,
    payload |-> [kind |-> "none", value |-> Undefined]],
   [route |-> "check", authorization |-> Str(Bearer \o <<"a", "b">>),
    payload |-> [kind |-> "json", value |-> ExampleBody]],
   [route |-> "check", authorization |-> Str(Bearer \o <<"a", "b">>),
    payload |-> [kind |-> "malformed", value |-> Undefined]],
   [route |-> "identify", authorization |-> Undefined,
    payload |-> [kind |-> "json", value |-> Arr(<<>>)]]}

InitStartup == InitWith(AllModules, {Str(<<"a", "b">>)})

NextStartup ==
  \/ Startup
  \/ \E r \in DOMAIN reqs : Arrive(r, StartupWorkload)
  \/ Serve

SpecStartup == InitStartup /\ [][NextStartup]_vars

(***************************************************************************)
(* Two requests in flight, one on each connection, served interleaved by   *)
(* the event loop.  Every callback that is ready is run: the synchronous   *)
(* part of a request once its body has been read, the continuation of an   *)
(* await once the promise settles.                                         *)
(***************************************************************************)
Conns == {1, 2}

ConcWorkload ==
  {[route |-> "health", authorization |-> Undefined,
    payload |-> [kind |-> "none", value |-> Undefined]],
   [route |-> "check", authorization |-> Str(Bearer \o <<"a", "b">>),
    payload |-> [kind |-> "json", value |-> ExampleBody]],
   [route |-> "identify", authorization |-> Str(LowerBearer \o <<"a", "b">>),
    payload |-> [kind |-> "json", value |-> Arr(<<>>)]],
   [route |-> "check", authorization |-> Str(Bearer \o <<"a", "x">>),
    payload |-> [kind |-> "json", value |-> ExampleBody]],
   [route |-> "identify", authorization |-> Str(Bearer \o <<"a", "b">>),
    payload |-> [kind |-> "malformed", value |-> Undefined]],
   [route |-> "check", authorization |-> Str(<<"a", "b">>),
    payload |-> [kind |-> "json", value |-> ProtoBody]]}

InitConc ==
  /\ phase = "starting"
  /\ mainModule = HandlerExport
  /\ identifyModule = HandlerExport
  /\ mainHandler = Unresolved
  /\ identifyDuplicatesHandler = Unresolved
  /\ env = [INTERNAL_AUTH_TOKEN |-> Str(<<"a", "b">>)]
  /\ reqs = [r \in Conns |-> Idle]
  /\ failed = FALSE
  /\ value = Null /\ once = NotRun /\ twice = NotRun

NextConc ==
  \/ Startup
  \/ \E r \in Conns : reqs[r].pc = "idle" /\ Arrive(r, ConcWorkload)
  \/ Serve

\* the callback that runs once the body of the request has been read
Dispatch(r) ==
  \/ JsonParserFails(r)
  \/ Health(r)
  \/ RequireAuthRejects(r)
  \/ RouteHandlerThrows(r)
  \/ RouteAwaits(r)

\* the continuation of the await
Settle(r) == HandlerResolves(r) \/ HandlerRejects(r)

FairConc == \A r \in Conns : WF_vars(Dispatch(r)) /\ WF_vars(Settle(r))

SpecConc == InitConc /\ [][NextConc]_vars /\ FairConc

(***************************************************************************)
(* coerceToStringsDeep on enumerated JSON values, applied once and again.  *)
(***************************************************************************)
SeqsUpTo(S, n) == UNION {[1..k -> S] : k \in 0..n}

Leaves ==
  {Null, Str(<<>>), Str(<<"x">>), Bool(TRUE), Bool(FALSE)}
  \cup {Num(n) : n \in (0 - MaxNum)..MaxNum}

\* the leaves that occur inside the enumerated containers
ElemLeaves == {Null, Str(<<"x">>), Num(MaxNum), Bool(TRUE)}

Keys == {"a", "b", "1", "2", "__proto__"}

\* JSON.parse creates own properties, "__proto__" included; an object has its
\* keys in property order
KeySeqs ==
  {ks \in SeqsUpTo(Keys, MaxLen) :
     \A i, j \in 1..Len(ks) : i < j => (ks[i] # ks[j] /\ ~KeyBefore(ks[j], ks[i]))}

Objects(S) ==
  UNION {{Plain([i \in 1..Len(ks) |-> Ent(ks[i], vs[i])]) : vs \in [1..Len(ks) -> S]} :
           ks \in KeySeqs}

Flat(S) == {Arr(x) : x \in SeqsUpTo(S, MaxLen)} \cup Objects(S)

Wrap(S) ==
  {Arr(<<v>>) : v \in S}
  \cup {Plain(<<Ent("a", v)>>) : v \in S}
  \cup {Plain(<<Ent("__proto__", v)>>) : v \in S}

RECURSIVE Nested(_)
Nested(d) == IF d <= 1 THEN Flat(ElemLeaves) ELSE Flat(ElemLeaves) \cup Wrap(Nested(d - 1))

JsonValues == Leaves \cup Nested(MaxDepth)

InitCoerce ==
  /\ phase = "starting"
  /\ mainModule = HandlerExport
  /\ identifyModule = HandlerExport
  /\ mainHandler = Unresolved
  /\ identifyDuplicatesHandler = Unresolved
  /\ env = [INTERNAL_AUTH_TOKEN |-> Undefined]
  /\ reqs = [r \in {1} |-> Idle]
  /\ failed = FALSE
  /\ value \in JsonValues
  /\ once = NotRun
  /\ twice = NotRun

CoerceOnce ==
  /\ once.t = "none"
  /\ once' = coerceToStringsDeep(value)
  /\ UNCHANGED <<gatewayVars, value, twice>>

CoerceTwice ==
  /\ once.t # "none"
  /\ twice.t = "none"
  /\ twice' = coerceToStringsDeep(once)
  /\ UNCHANGED <<gatewayVars, value, once>>

NextCoerce == CoerceOnce \/ CoerceTwice

SpecCoerce == InitCoerce /\ [][NextCoerce]_vars

(***************************************************************************)
(* Properties.                                                             *)
(***************************************************************************)
secret == env.INTERNAL_AUTH_TOKEN
Parses(req) == req.pc # "idle" /\ ParseError(req.payload) = 0
\* the request carries the credential that is configured
CarriesSecret(req) == ~Falsy(secret) /\ got(req.headers.authorization) = secret.s

\* C1: on an authenticated route, with a secret configured and a body that
\* parses, a request whose credential is not the secret is answered 401 and
\* its handler is never invoked.
C1_UnauthorizedGets401 ==
  \A r \in DOMAIN reqs :
    (/\ Authenticated(reqs[r])
     /\ Parses(reqs[r])
     /\ ~Falsy(secret)
     /\ ~CarriesSecret(reqs[r]))
    => /\ reqs[r].invoked = 0
       /\ reqs[r].pc = "done" => reqs[r].res.status = 401

\* C2: the authentication decision is MissingServerSecret when the secret is
\* empty or absent, else Authorized when the token equals the secret, else
\* Unauthorized; nothing else (such as an exception) comes out of it.
C2_ThreeWayDecision ==
  \A r \in DOMAIN reqs :
    reqs[r].auth # "none"
    => reqs[r].auth = (IF Falsy(secret) THEN "MissingServerSecret"
                       ELSE IF CarriesSecret(reqs[r]) THEN "Authorized"
                       ELSE "Unauthorized")

\* C3 as stated: without a secret, every request to an authenticated route is
\* answered 500, whatever its header and body, and no handler is invoked.
C3_Original ==
  \A r \in DOMAIN reqs :
    (Authenticated(reqs[r]) /\ Falsy(secret))
    => /\ reqs[r].invoked = 0
       /\ reqs[r].pc = "done" => reqs[r].res.status = 500

\* C3 amended: without a secret, every request to an authenticated route whose
\* body passes the JSON parser is answered 500 "Missing INTERNAL_AUTH_TOKEN",
\* whatever its header; one whose body is rejected by the parser is answered
\* with the parser's 4xx status; in both cases no handler is invoked.
C3_MissingSecret ==
  \A r \in DOMAIN reqs :
    (Authenticated(reqs[r]) /\ Falsy(secret))
    => /\ reqs[r].invoked = 0
       /\ reqs[r].pc = "done"
          => IF Parses(reqs[r])
             THEN /\ reqs[r].res.status = 500
                  /\ reqs[r].res.by = "json"
                  /\ reqs[r].auth = "MissingServerSecret"
             ELSE reqs[r].res.status \in {400, 413}

C3_Witness ==
  \E r \in DOMAIN reqs :
    /\ reqs[r].pc = "done"
    /\ reqs[r].route = "identify"
    /\ secret = Undefined
    /\ reqs[r].headers.authorization = Str(Bearer \o <<"a", "b">>)
    /\ reqs[r].payload.kind = "json"
    /\ reqs[r].res.status = 500

\* outside string literals, a JSON text whose leaves are all strings holds
\* punctuation only
RECURSIVE OnlyStringLeaves(_, _)
OnlyStringLeaves(text, inString) ==
  IF text = <<>> THEN ~inString
  ELSE IF Head(text) = "\"" THEN OnlyStringLeaves(Tail(text), ~inString)
  ELSE IF inString THEN OnlyStringLeaves(Tail(text), inString)
  ELSE Head(text) \in {"{", "}", "[", "]", ",", ":"}
       /\ OnlyStringLeaves(Tail(text), inString)

\* {"a":"1","b":"","c":["true","x"]}
ExampleText ==
  <<"{", "\"", "a", "\"", ":", "\"", "1", "\"", ",",
    "\"", "b", "\"", ":", "\"", "\"", ",",
    "\"", "c", "\"", ":", "[", "\"", "t", "r", "u", "e", "\"", ",",
    "\"", "x", "\"", "]", "}">>

DigitValue(c) ==
  CASE c = "0" -> 0 [] c = "1" -> 1 [] c = "2" -> 2 [] c = "3" -> 3
    [] c = "4" -> 4 [] c = "5" -> 5 [] c = "6" -> 6 [] c = "7" -> 7
    [] c = "8" -> 8 [] c = "9" -> 9

RECURSIVE ParseNat(_)
ParseNat(s) ==
  IF Len(s) = 1 THEN DigitValue(s[1])
  ELSE 10 * ParseNat(SubSeq(s, 1, Len(s) - 1)) + DigitValue(s[Len(s)])

\* the number a decimal text denotes
ParseNumber(s) == IF Head(s) = "-" THEN 0 - ParseNat(Tail(s)) ELSE ParseNat(s)

\* w has the shape of v, string leaves, and each leaf is the text of v's leaf
RECURSIVE Normalized(_, _)
Normalized(v, w) ==
  CASE v.t \in {"null", "undefined"} -> w = Str(<<>>)
    [] v.t = "string" -> w = v
    [] v.t = "number" -> w.t = "string" /\ w.s # <<>> /\ ParseNumber(w.s) = v.n
    [] v.t = "boolean" ->
         w = Str(IF v.b THEN <<"t", "r", "u", "e">> ELSE <<"f", "a", "l", "s", "e">>)
    [] v.t = "array" ->
         /\ w.t = "array"
         /\ Len(w.items) = Len(v.items)
         /\ \A i \in 1..Len(v.items) : Normalized(v.items[i], w.items[i])
    [] v.t = "object" ->
         /\ w.t = "object"
         /\ Len(w.ents) = Len(v.ents)
         /\ \A i \in 1..Len(v.ents) :
              w.ents[i].k = v.ents[i].k /\ Normalized(v.ents[i].v, w.ents[i].v)

\* C5: coerceToStringsDeep keeps the container structure (the keys of every
\* object in their order, the length and order of every array) and turns
\* every leaf into a string: "" for null, a string unchanged, the text of a
\* number or boolean.
C5_ShapePreserving == once.t # "none" => Normalized(value, once)

\* C6: coercing a coerced value gives the same JSON value again.
C6_Idempotent == twice.t # "none" => JsonText(twice) = JsonText(once)

C6_Witness ==
  /\ twice.t # "none"
  /\ value.t = "object"
  /\ JsonText(once) # JsonText(value)

\* the body of res.json({ error: message })
ErrorBody(message) ==
  <<"{", "\"", "e", "r", "r", "o", "r", "\"", ":", "\"">> \o message \o <<"\"", "}">>

\* C7: a request whose handler throws or rejects is answered 500 with a JSON
\* object holding the error's message, or "Internal error" when it has none,
\* and the server keeps listening.
C7_HandlerFailure ==
  /\ failed => phase = "listening"
  /\ \A r \in DOMAIN reqs :
       reqs[r].outcome \in {"threw", "rejected"}
       => /\ reqs[r].pc = "done"
          /\ reqs[r].res.status = 500
          /\ reqs[r].res.by = "json"
          /\ reqs[r].res.body =
               ErrorBody(IF reqs[r].result.t = "Error" /\ reqs[r].result.message.s # <<>>
                         THEN reqs[r].result.message.s
                         ELSE <<"Internal error">>)

\* a request that arrived after a handler failure has been served by its handler
C7_Witness ==
  \E r \in DOMAIN reqs :
    /\ reqs[r].afterFailure
    /\ reqs[r].pc = "done"
    /\ reqs[r].outcome = "resolved"
    /\ reqs[r].res = Send(404, <<"x">>)

\* C8: when the handler resolves with a result, the response has the result's
\* statusCode, or 200 without one, and the result's body, or "" without one.
C8_ResultMapping ==
  \A r \in DOMAIN reqs :
    (reqs[r].outcome = "resolved" /\ reqs[r].result.t = "result")
    => /\ reqs[r].pc = "done"
       /\ reqs[r].res.by = "send"
       /\ reqs[r].res.status = (IF reqs[r].result.statusCode.t = "undefined" THEN 200
                                ELSE reqs[r].result.statusCode.n)
       /\ reqs[r].res.body = (IF reqs[r].result.body.t = "undefined" THEN <<>>
                              ELSE reqs[r].result.body.s)

C8_Witness ==
  \E r \in DOMAIN reqs :
    /\ reqs[r].outcome = "resolved"
    /\ reqs[r].result = [t |-> "result", statusCode |-> Undefined, body |-> Undefined]
    /\ reqs[r].res = Send(200, <<>>)

\* C9: GET /health is answered 200 "ok" whatever the request carries, and
\* invokes no handler.
C9_HealthAlwaysOk ==
  \A r \in DOMAIN reqs :
    reqs[r].route = "health"
    => /\ reqs[r].invoked = 0
       /\ reqs[r].pc = "done" => reqs[r].res = Send(200, <<"ok">>)

\* one of the three export shapes of the module is callable
AnyCallable(m) == m.self = "function" \/ m.handler = "function" \/ m.default = "function"

\* C10: the server listens only when both resolved handlers are callable; when
\* a module has no callable export shape the server never listens and no
\* request is ever received.
C10_FailFast ==
  /\ phase = "listening"
     => mainHandler.type = "function" /\ identifyDuplicatesHandler.type = "function"
  /\ (~AnyCallable(mainModule) \/ ~AnyCallable(identifyModule))
     => /\ phase \in {"starting", "crashed"}
        /\ \A r \in DOMAIN reqs : reqs[r] = Idle

C10_Witness ==
  /\ phase = "crashed"
  /\ AnyCallable(mainModule)
  /\ mainHandler.type = "function"
  /\ ~AnyCallable(identifyModule)
  /\ \A r \in DOMAIN reqs : reqs[r] = Idle

\* the body of the request is one the JSON parser rejects
Rejected(req) == req.payload.kind \in {"malformed", "toolarge"}

\* C11: a request to an authenticated route whose body is malformed or over
\* the limit is answered with a 4xx status by the parse step; requireAuth
\* does not decide on it and no handler is invoked.
C11_ParseBeforeAuth ==
  \A r \in DOMAIN reqs :
    /\ reqs[r].auth # "none" => ~Rejected(reqs[r])
    /\ (reqs[r].pc # "idle" /\ Authenticated(reqs[r]) /\ Rejected(reqs[r]))
       => /\ reqs[r].auth = "none"
          /\ reqs[r].invoked = 0
          /\ reqs[r].body = Undefined
          /\ reqs[r].pc \in {"reading", "done"}
          /\ reqs[r].pc = "done"
             => reqs[r].res.status \in 400..499 /\ Len(reqs[r].sent) = 1

C11_Witness ==
  \E r \in DOMAIN reqs :
    /\ reqs[r].pc = "done"
    /\ reqs[r].route = "check"
    /\ reqs[r].payload.kind = "toolarge"
    /\ CarriesSecret(reqs[r])
    /\ reqs[r].res.status = 413

\* C12: a request gets at most one response; nothing is written while the
\* request is read or its handler awaited; a finished request, failed or
\* not, has exactly one response.
C12_OneResponse ==
  \A r \in DOMAIN reqs :
    /\ Len(reqs[r].sent) <= 1
    /\ reqs[r].pc \in {"idle", "reading", "await"} => reqs[r].sent = <<>>
    /\ reqs[r].pc = "done" => reqs[r].sent = <<reqs[r].res>>

\* the success response could not be written and the catch block answered
C12_Witness ==
  \E r \in DOMAIN reqs :
    /\ reqs[r].pc = "done"
    /\ reqs[r].outcome = "resolved"
    /\ reqs[r].result = Undefined
    /\ reqs[r].sent = <<reqs[r].res>>
    /\ reqs[r].res.status = 500

\* the first callable among the module itself, .handler, .default
FirstCallable(m) ==
  IF m.self = "function" THEN "module"
  ELSE IF m.handler = "function" THEN "handler"
  ELSE IF m.default = "function" THEN "default"
  ELSE "none"

ResolvedAsClaimed(m, h) ==
  AnyCallable(m) => (h.type = "function" /\ h.via = FirstCallable(m))

\* C13: the resolved handler is the first callable among the module itself,
\* its .handler, its .default, and resolution succeeds whenever one of the
\* three is callable.
C13_ResolutionOrder ==
  phase # "starting"
  => /\ ResolvedAsClaimed(mainModule, mainHandler)
     /\ ResolvedAsClaimed(identifyModule, identifyDuplicatesHandler)
     /\ (AnyCallable(mainModule) /\ AnyCallable(identifyModule)) => phase = "listening"

\* C14: crypto.timingSafeEqual is called with buffers of equal byte length
\* only, and so never throws.
C14_EqualLengthCompare ==
  \A r \in DOMAIN reqs :
    /\ reqs[r].auth # "RangeError"
    /\ (reqs[r].auth # "none" /\ Compared(reqs[r].headers.authorization, expected))
       => Len(BufferFrom(got(reqs[r].headers.authorization))) = Len(BufferFrom(expected.s))

\* the handler threw or rejected, or its result could not be written
RouteFailed(req) ==
  \/ req.outcome \in {"threw", "rejected"}
  \/ req.outcome = "resolved" /\ req.result = Undefined

\* the message the catch block reports for what it caught
CaughtMessage(req) ==
  IF req.outcome = "resolved" THEN <<"Cannot read properties of undefined">>
  ELSE IF req.result.t = "Error" /\ req.result.message.s # <<>> THEN req.result.message.s
  ELSE <<"Internal error">>

\* C15 as stated: an exception of the parse step, of normalization or of the
\* handler invocation is answered 500 with a JSON object {"error": ...}.
C15_Original ==
  \A r \in DOMAIN reqs :
    (reqs[r].pc = "done" /\ Authenticated(reqs[r])
     /\ (Rejected(reqs[r]) \/ RouteFailed(reqs[r])))
    => reqs[r].res.status = 500 /\ reqs[r].res.by = "json"

\* C15 amended: an exception raised inside the route (normalization, event
\* construction, handler invocation, writing the result) is answered by the
\* route's catch block with 500 and {"error": message or "Internal error"};
\* an exception of the parse step is raised before the route is entered and
\* is answered by the default error handler with the parser's 4xx status.
C15_RouteBoundary ==
  \A r \in DOMAIN reqs :
    (reqs[r].pc = "done" /\ Authenticated(reqs[r]))
    => /\ RouteFailed(reqs[r])
          => reqs[r].res = [status |-> 500, by |-> "json",
                            body |-> ErrorBody(CaughtMessage(reqs[r]))]
       /\ Rejected(reqs[r])
          => /\ reqs[r].res.by = "finalhandler"
             /\ reqs[r].res.status \in {400, 413}
             /\ reqs[r].outcome = "none"

C15_Witness ==
  \E r \in DOMAIN reqs :
    /\ reqs[r].pc = "done"
    /\ reqs[r].route = "identify"
    /\ reqs[r].outcome = "rejected"
    /\ reqs[r].result = Null
    /\ reqs[r].res.body = ErrorBody(<<"Internal error">>)

\* C16: for a configured secret, every request that is not authorized gets
\* the same response, 401 {"error":"Unauthorized"}, however its token fails.
C16_UniformUnauthorized ==
  \A r \in DOMAIN reqs :
    (/\ reqs[r].pc = "done"
     /\ Authenticated(reqs[r])
     /\ Parses(reqs[r])
     /\ ~Falsy(secret)
     /\ ~CarriesSecret(reqs[r]))
    => reqs[r].res = [status |-> 401, by |-> "json",
                      body |-> ErrorBody(<<"Unauthorized">>)]

\* the header value starts with the word Bearer, in any case, and a space
HasBearerScheme(authorization) ==
  /\ authorization.t = "string"
  /\ Len(authorization.s) >= 7
  /\ \A i \in 1..6 :
       authorization.s[i] \in {<<"B", "E", "A", "R", "E", "R">>[i],
                               <<"b", "e", "a", "r", "e", "r">>[i]}
  /\ authorization.s[7] = " "

\* C17: a handler is invoked only for a header of the form Bearer <token>
\* with the configured secret as token; a header without the Bearer scheme
\* is answered 401.
C17_BearerRequired ==
  \A r \in DOMAIN reqs :
    /\ reqs[r].invoked > 0
       => HasBearerScheme(reqs[r].headers.authorization) /\ CarriesSecret(reqs[r])
    /\ (/\ reqs[r].pc = "done"
        /\ Authenticated(reqs[r])
        /\ Parses(reqs[r])
        /\ ~Falsy(secret)
        /\ ~HasBearerScheme(reqs[r].headers.authorization))
       => reqs[r].res.status = 401

\* C18: a handler is invoked at most once for a request, exactly once when
\* the request parses and is authorized, and its failure is reported by one
\* 500 response without a second invocation.
C18_NoRetry ==
  \A r \in DOMAIN reqs :
    /\ reqs[r].invoked <= 1
    /\ reqs[r].invoked = 1 => reqs[r].callee = Callee(reqs[r].route)
    /\ (/\ reqs[r].pc \in {"await", "done"}
        /\ Authenticated(reqs[r])
        /\ Parses(reqs[r])
        /\ CarriesSecret(reqs[r]))
       => reqs[r].invoked = 1
    /\ reqs[r].outcome \in {"threw", "rejected"}
       => /\ reqs[r].invoked = 1
          /\ reqs[r].pc = "done"
          /\ reqs[r].sent = <<reqs[r].res>>
          /\ reqs[r].res.status = 500

C18_Witness ==
  \E r \in DOMAIN reqs :
    /\ reqs[r].pc = "done"
    /\ reqs[r].outcome = "rejected"
    /\ reqs[r].callee = "identifyDuplicatesHandler"
    /\ reqs[r].invoked = 1
    /\ reqs[r].res.status = 500

\* the event and the response of a request come from its own body, headers
\* and handler result
OwnData(req) ==
  /\ req.invoked > 0
     => /\ req.event.headers = req.headers
        /\ req.event.body = JSONstringify(coerceToStringsDeep(req.body))
  /\ (req.pc = "done" /\ req.outcome = "resolved" /\ req.result.t = "result")
     => /\ req.res.status = (IF req.result.statusCode.t = "undefined" THEN 200
                             ELSE req.result.statusCode.n)
        /\ req.res.body = (IF req.result.body.t = "undefined" THEN <<>>
                           ELSE req.result.body.s)
  /\ (req.pc = "done" /\ req.outcome \in {"threw", "rejected"})
     => req.res.body = ErrorBody(CaughtMessage(req))

\* the request waits for a callback of its own that can run
Pending(req) == req.pc = "reading" \/ (req.pc = "await" /\ ~req.hung)

\* the request waits for a handler that never settles
Hanging(req) == req.pc = "await" /\ req.hung

\* C19: with every ready callback run, each request is answered unless its
\* own handler never settles; a request whose handler hangs stays pending
\* for ever and holds up no request on the other connection; event and
\* response are built from the request's own data.
C19_Interleaved ==
  /\ \A r \in Conns : Pending(reqs[r]) ~> (reqs[r].pc = "done" \/ Hanging(reqs[r]))
  /\ [][\A r \in Conns : Hanging(reqs[r]) => reqs'[r] = reqs[r]]_vars
  /\ [](\A r \in Conns : OwnData(reqs[r]))

\* one request hangs in its handler, the request on the other connection has
\* been served by the other handler with its own event
C19_Witness ==
  /\ reqs[1].pc = "await"
  /\ reqs[1].hung
  /\ reqs[1].callee = "mainHandler"
  /\ reqs[1].event.body.s = ExampleText
  /\ reqs[2].pc = "done"
  /\ reqs[2].callee = "identifyDuplicatesHandler"
  /\ reqs[2].event.body.s = <<"[", "]">>
  /\ reqs[2].event.headers.authorization = Str(LowerBearer \o <<"a", "b">>)
  /\ reqs[2].res = Send(201, <<"x">>)

\* C20: once the server listens no step changes the configured secret or any
\* other process-wide value, and every authentication decision is the one
\* the configured secret gives.
C20_ReadOnlySecret ==
  /\ [][/\ env' = env
        /\ phase = "listening"
           => UNCHANGED <<phase, mainModule, identifyModule, mainHandler,
                          identifyDuplicatesHandler>>]_vars
  /\ [](\A r \in DOMAIN reqs :
          reqs[r].auth # "none"
          => /\ reqs[r].auth = "MissingServerSecret" <=> Falsy(secret)
             /\ reqs[r].auth = "Authorized" <=> CarriesSecret(reqs[r]))

\* a request that arrived after other requests were served is decided
\* against the secret
C20_Witness ==
  \E r \in DOMAIN reqs :
    /\ reqs[r].afterFailure
    /\ reqs[r].auth = "Authorized"
    /\ secret = Str(<<"U+00E9">>)
    /\ reqs[r].headers.authorization = Str(Bearer \o <<"U+00E9">>)

====
